---- MODULE Spec2Model ----
(***************************************************************************)
(* Trivia question service (backend/flaskr/__init__.py): the question      *)
(* table, the category catalog and the handlers of GET /questions,         *)
(* DELETE /questions/<id>, POST /questions, GET /categories/<id>/questions *)
(* and POST /quizzes, each handler one atomic action from request to       *)
(* response.                                                               *)
(*                                                                         *)
(* JSON values of a request are tagged records (JNull, JInt, JStr), text   *)
(* is a sequence of one-character strings, Python's None in a response is  *)
(* the empty sequence and any other optional value v is <<v>>.             *)
(***************************************************************************)
EXTENDS Integers, Sequences, FiniteSets, TLC

VARIABLES
    questions,      \* the rows of the questions table (Question.query)
    nextId,         \* the id the table assigns to the next inserted row
    categories,     \* the rows of the categories table (Category.query)
    request,        \* the request being answered
    response,       \* the response the handler returned for it
    seen,           \* quiz client: the previous_questions it sends
    served,         \* quiz client: the questions it was served, in order
    calls,          \* quiz client: the number of /quizzes calls it made
    quizCategory,   \* quiz client: the quiz_category id it plays
    history         \* every id a row of the questions table has ever had

vars == <<questions, nextId, categories, request, response, seen, served, calls, quizCategory, history>>

(***************************************************************************)
(* Bounds of the model.                                                    *)
(***************************************************************************)
MaxId == 3          \* ids the table hands out before inserts are cut off
MaxPageRows == 12   \* rows of the table in the pagination specification
MaxPage == 3        \* page numbers range over -MaxPage .. MaxPage
MaxCalls == 5       \* /quizzes calls of one quiz session
MaxCategoryId == 3  \* category ids asked for range over 0 .. MaxCategoryId

(***************************************************************************)
(* JSON values and Python's conversions of them.                           *)
(***************************************************************************)
JNull == [t |-> "null", i |-> 0, s |-> <<>>]
JInt(n) == [t |-> "int", i |-> n, s |-> <<>>]
JStr(cs) == [t |-> "str", i |-> 0, s |-> cs]

None == <<>>
Some(x) == <<x>>

\* bool(v) as `if search:` and all([...]) take it: None, 0 and "" are false
Truthy(v) ==
    CASE v.t = "null" -> FALSE
      [] v.t = "int" -> v.i # 0
      [] OTHER -> v.s # <<>>

DigitChar(d) ==
    CASE d = 0 -> "0" [] d = 1 -> "1" [] d = 2 -> "2" [] d = 3 -> "3"
      [] d = 4 -> "4" [] d = 5 -> "5" [] d = 6 -> "6" [] d = 7 -> "7"
      [] d = 8 -> "8" [] OTHER -> "9"

RECURSIVE NatStr(_)
NatStr(n) == IF n < 10 THEN <<DigitChar(n)>> ELSE NatStr(n \div 10) \o <<DigitChar(n % 10)>>

\* str(n) of an int
IntStr(n) == IF n < 0 THEN <<"-">> \o NatStr(-n) ELSE NatStr(n)

\* str(v) of a JSON int or string
PyStr(v) == IF v.t = "int" THEN IntStr(v.i) ELSE v.s

Min(a, b) == IF a < b THEN a ELSE b
Max(a, b) == IF a > b THEN a ELSE b

\* seq[start:stop] of Python: a negative index counts from the end, and
\* both indices are clamped to 0 .. len(seq)
SliceIndex(i, len) == IF i < 0 THEN Max(i + len, 0) ELSE Min(i, len)

Slice(seq, start, stop) ==
    LET lo == SliceIndex(start, Len(seq))
        hi == SliceIndex(stop, Len(seq))
    IN  IF lo >= hi THEN <<>> ELSE SubSeq(seq, lo + 1, hi)

(***************************************************************************)
(* The tables.                                                             *)
(***************************************************************************)
Ids(rows) == {r.id : r \in rows}

\* the sequences that list every row of a finite set once: what a query
\* without ORDER BY may return
Orderings(rows) ==
    {f \in [1 .. Cardinality(rows) -> rows] : \A i, j \in 1 .. Cardinality(rows) : i # j => f[i] # f[j]}

\* Question.query.order_by(Question.id).all()
RECURSIVE OrderById(_)
OrderById(rows) ==
    IF rows = {} THEN <<>>
    ELSE LET first == CHOOSE r \in rows : \A o \in rows : r.id <= o.id
         IN  <<first>> \o OrderById(rows \ {first})

\* the row Question(question, answer, category, difficulty).insert() stores:
\* question, answer and category are text columns, difficulty an integer
\* column, and the id comes from the table's sequence
NewQuestion(id, question, answer, category, difficulty) ==
    [id |-> id, question |-> PyStr(question), answer |-> PyStr(answer),
     category |-> PyStr(category), difficulty |-> difficulty.i]

\* Question.format()
Format(q) ==
    [id |-> q.id, question |-> q.question, answer |-> q.answer,
     category |-> q.category, difficulty |-> q.difficulty]

FormatAll(seq) == [i \in 1 .. Len(seq) |-> Format(seq[i])]

\* the catalog the service is seeded with
CategoryPool == {[id |-> 1, type |-> "Science"], [id |-> 2, type |-> "Art"]}

(***************************************************************************)
(* Responses.                                                              *)
(***************************************************************************)
ErrorMessage(code) ==
    CASE code = 400 -> "Bad request. Please check your input."
      [] code = 404 -> "The requested resource could not be found."
      [] code = 405 -> "This HTTP method is not allowed for the requested URL."
      [] code = 422 -> "Unprocessable request."
      [] OTHER -> "Something went wrong on the server."

\* abort(code), answered by the matching errorhandler
Abort(code) ==
    [status |-> code, success |-> FALSE, error |-> code, message |-> ErrorMessage(code)]

NoRequest == [op |-> "none"]
NoResponse == [status |-> 0, success |-> FALSE]

ClientUnchanged == UNCHANGED <<seen, served, calls, quizCategory>>

\* a request of some other client than the quiz client, answered by `handler`
Serve(handler) ==
    /\ handler
    /\ history' = history \cup Ids(questions')
    /\ ClientUnchanged

(***************************************************************************)
(* GET /questions                                                          *)
(***************************************************************************)
QUESTIONS_PER_PAGE == 10

\* request.args.get('page', 1, type=int)
PageOf(arg) == IF arg.t = "int" THEN arg.i ELSE 1

\* the slice with the page number taken to count from 0
PaginatedFromZero(formatted_questions, page) ==
    Slice(formatted_questions, page * QUESTIONS_PER_PAGE, (page + 1) * QUESTIONS_PER_PAGE)

\* formatted_questions[(page-1)*per_page: page*per_page]
Paginated(formatted_questions, page) ==
    Slice(formatted_questions, (page - 1) * QUESTIONS_PER_PAGE, page * QUESTIONS_PER_PAGE)

\* {cat.id: cat.type for cat in Category.query.all()}
CategoriesDict == [id \in Ids(categories) |-> (CHOOSE c \in categories : c.id = id).type]

get_questions(arg) ==
    LET page == PageOf(arg)
        formatted_questions == FormatAll(OrderById(questions))
        paginated == Paginated(formatted_questions, page)
    IN  /\ request' = [op |-> "list", page |-> arg]
        /\ response' =
              IF paginated = <<>> THEN Abort(404)
              ELSE [status |-> 200, success |-> TRUE, questions |-> paginated,
                    totalQuestions |-> Len(formatted_questions),
                    categories |-> CategoriesDict, currentCategory |-> None]
        /\ UNCHANGED <<questions, nextId, categories>>

(***************************************************************************)
(* DELETE /questions/<int:question_id>                                     *)
(***************************************************************************)
\* the delete is never committed
DeletedNothing(question) == questions

\* db.session.delete(question); db.session.commit()
Deleted(question) == questions \ {question}

remove_question(question_id) ==
    /\ request' = [op |-> "delete", id |-> question_id]
    /\ IF \E q \in questions : q.id = question_id
       THEN LET question == CHOOSE q \in questions : q.id = question_id
            IN  /\ questions' = Deleted(question)
                /\ response' = [status |-> 200, success |-> TRUE, id |-> question_id]
       ELSE /\ response' = Abort(404)
            /\ UNCHANGED questions
    /\ UNCHANGED <<nextId, categories>>

(***************************************************************************)
(* POST /questions: search when the payload has a searchTerm, else create  *)
(***************************************************************************)
LowerChar(c) == IF c = "A" THEN "a" ELSE IF c = "B" THEN "b" ELSE c

\* text LIKE pattern, case-insensitively: % matches any run of characters,
\* _ any one character, every other character itself
RECURSIVE ILike(_, _)
ILike(text, pattern) ==
    IF pattern = <<>> THEN text = <<>>
    ELSE IF Head(pattern) = "%"
         THEN ILike(text, Tail(pattern)) \/ (text # <<>> /\ ILike(Tail(text), pattern))
    ELSE IF Head(pattern) = "_"
         THEN text # <<>> /\ ILike(Tail(text), Tail(pattern))
    ELSE /\ text # <<>>
         /\ LowerChar(Head(text)) = LowerChar(Head(pattern))
         /\ ILike(Tail(text), Tail(pattern))

\* Question.query.filter(Question.question.ilike(f"%{search}%"))
Matches(search) ==
    {q \in questions : ILike(q.question, <<"%">> \o PyStr(search) \o <<"%">>)}

\* all([question_text, answer_text, difficulty, category])
AllGiven(payload) ==
    /\ Truthy(payload.question)
    /\ Truthy(payload.answer)
    /\ Truthy(payload.difficulty)
    /\ Truthy(payload.category)

\* the question and answer texts passed the wrong way round
CreatedQuestionSwapped(payload) ==
    NewQuestion(nextId, payload.answer, payload.question, payload.category, payload.difficulty)

\* Question(question=question_text, answer=answer_text,
\*          difficulty=difficulty, category=category)
CreatedQuestion(payload) ==
    NewQuestion(nextId, payload.question, payload.answer, payload.category, payload.difficulty)

add_or_search_question(payload) ==
    LET search == payload.searchTerm
    IN  /\ request' = [op |-> "post", payload |-> payload]
        /\ IF Truthy(search)
           THEN /\ IF Matches(search) = {}
                   THEN response' = Abort(404)
                   ELSE \E matches \in Orderings(Matches(search)) :
                          response' = [status |-> 200, success |-> TRUE,
                                       questions |-> FormatAll(matches),
                                       totalQuestions |-> Len(matches),
                                       currentCategory |-> None]
                /\ UNCHANGED <<questions, nextId>>
           ELSE IF ~AllGiven(payload)
           THEN /\ response' = Abort(422)
                /\ UNCHANGED <<questions, nextId>>
           ELSE /\ nextId <= MaxId      \* the model stops inserting after MaxId rows
                /\ questions' = questions \cup {CreatedQuestion(payload)}
                /\ nextId' = nextId + 1
                /\ response' = [status |-> 201, success |-> TRUE]
        /\ UNCHANGED categories

(***************************************************************************)
(* GET /categories/<int:category_id>/questions                             *)
(***************************************************************************)
\* the filter on the category left out
InCategoryUnfiltered(category_id) == questions

\* Question.query.filter_by(category=str(category_id))
InCategory(category_id) == {q \in questions : q.category = IntStr(category_id)}

get_questions_by_category(category_id) ==
    /\ request' = [op |-> "category", id |-> category_id]
    /\ IF \E c \in categories : c.id = category_id
       THEN LET category_obj == CHOOSE c \in categories : c.id = category_id
            IN  \E filtered_questions \in Orderings(InCategory(category_id)) :
                  response' = [status |-> 200, success |-> TRUE,
                               questions |-> FormatAll(filtered_questions),
                               totalQuestions |-> Len(filtered_questions),
                               currentCategory |-> Some(category_obj.type)]
       ELSE response' = Abort(404)
    /\ UNCHANGED <<questions, nextId, categories>>

(***************************************************************************)
(* POST /quizzes                                                           *)
(***************************************************************************)
\* the category branch without its filter on the ids already asked
AvailableSeenInCategory(seen_questions, selected_category) ==
    IF Truthy(selected_category) /\ PyStr(selected_category) # <<"0">>
    THEN {q \in questions : q.category = PyStr(selected_category)}
    ELSE {q \in questions : q.id \notin seen_questions}

\* neither branch filters on the ids already asked
AvailableSeenAgain(seen_questions, selected_category) ==
    IF Truthy(selected_category) /\ PyStr(selected_category) # <<"0">>
    THEN {q \in questions : q.category = PyStr(selected_category)}
    ELSE questions

\* the category is never filtered on
AvailableAnyCategory(seen_questions, selected_category) ==
    {q \in questions : q.id \notin seen_questions}

\* the two Question.query.filter(...) of play_quiz
Available(seen_questions, selected_category) ==
    IF Truthy(selected_category) /\ PyStr(selected_category) # <<"0">>
    THEN {q \in questions : q.category = PyStr(selected_category) /\ q.id \notin seen_questions}
    ELSE {q \in questions : q.id \notin seen_questions}

play_quiz(data) ==
    LET available_questions == Available(data.previous_questions, data.quiz_category)
    IN  /\ request' = [op |-> "quiz", data |-> data]
        /\ IF available_questions = {}
           THEN response' = [status |-> 200, success |-> TRUE, question |-> None]
           ELSE \E next_question \in available_questions :
                  response' = [status |-> 200, success |-> TRUE,
                               question |-> Some(Format(next_question))]
        /\ UNCHANGED <<questions, nextId, categories>>

(***************************************************************************)
(* The store: questions are created and deleted.                           *)
(***************************************************************************)
Range(seq) == {seq[i] : i \in 1 .. Len(seq)}

NoSearch == {JNull}
QuestionTexts == {JNull, JStr(<<>>), JStr(<<"a">>), JStr(<<"b">>)}
AnswerTexts == {JStr(<<>>), JStr(<<"x">>)}
Difficulties == {JNull, JInt(0), JInt(2)}
CategoryRefs == {JNull, JInt(0), JInt(1), JStr(<<"2">>)}

StorePayloads ==
    [searchTerm : NoSearch, question : QuestionTexts, answer : AnswerTexts,
     difficulty : Difficulties, category : CategoryRefs]

Init ==
    /\ questions = {}
    /\ nextId = 1
    /\ categories = CategoryPool
    /\ request = NoRequest
    /\ response = NoResponse
    /\ seen = {}
    /\ served = <<>>
    /\ calls = 0
    /\ quizCategory = JNull
    /\ history = {}

Create == \E payload \in StorePayloads : Serve(add_or_search_question(payload))

Delete == \E question_id \in 0 .. MaxId + 1 : Serve(remove_question(question_id))

Next == Create \/ Delete

Spec == Init /\ [][Next]_vars

\* the full list GET /questions pages through
ListAll(rows) == Range(FormatAll(OrderById(rows)))

IsCreate(req) == req.op = "post" /\ ~Truthy(req.payload.searchTerm)

\* a field that is missing, null or the empty string
Absent(v) == v.t = "null" \/ (v.t = "str" /\ v.s = <<>>)

AnyAbsent(payload) ==
    \/ Absent(payload.question)
    \/ Absent(payload.answer)
    \/ Absent(payload.category)
    \/ Absent(payload.difficulty)

\* a stored column holds exactly the JSON value that was sent
SameText(text, v) == v.t = "str" /\ v.s = text
SameInt(n, v) == v.t = "int" /\ v.i = n

\* a stored column holds the sent value as the column's type has it
AsText(text, v) == text = PyStr(v)

\* once an id has left the table it never comes back
GoneForGood == \A id \in history : id \notin Ids(questions) => id \notin Ids(questions')

\* C1 as stated: after a successful create the full list holds a record
\* with exactly the four values sent, under an id no record ever had; after
\* a successful delete the id is in no later full list.
C1_Original ==
    [][/\ (IsCreate(request') /\ response'.status = 201) =>
            \E r \in ListAll(questions') :
                /\ r.id \notin history
                /\ SameText(r.question, request'.payload.question)
                /\ SameText(r.answer, request'.payload.answer)
                /\ SameText(r.category, request'.payload.category)
                /\ SameInt(r.difficulty, request'.payload.difficulty)
       /\ (request'.op = "delete" /\ response'.status = 200) =>
            request'.id \notin Ids(ListAll(questions'))
       /\ GoneForGood]_vars

\* C1 amended: after a successful create the full list holds a record with
\* the four values sent as the columns store them (question, answer and
\* category as text, so category 1 is listed as "1"; difficulty as an
\* integer), under an id no record ever had; after a successful delete the
\* id is in no later full list.
C1_CreateThenDelete ==
    [][/\ (IsCreate(request') /\ response'.status = 201) =>
            \E r \in ListAll(questions') :
                /\ r.id \notin history
                /\ AsText(r.question, request'.payload.question)
                /\ AsText(r.answer, request'.payload.answer)
                /\ AsText(r.category, request'.payload.category)
                /\ SameInt(r.difficulty, request'.payload.difficulty)
       /\ (request'.op = "delete" /\ response'.status = 200) =>
            request'.id \notin Ids(ListAll(questions'))
       /\ GoneForGood]_vars

\* a question was created after an earlier one was deleted, then deleted too
C1_Witness ==
    /\ request.op = "delete"
    /\ response.status = 200
    /\ request.id > 1
    /\ Cardinality(history) > Cardinality(questions) + 1

\* C2 as stated: create answers 422 and leaves the table as it was when one
\* of the four fields is missing, null or empty, and for every other input
\* succeeds and stores exactly one more question.
C2_CreateValidation ==
    [][IsCreate(request') =>
        IF AnyAbsent(request'.payload)
        THEN response'.status = 422 /\ questions' = questions
        ELSE /\ response'.status = 201
             /\ Cardinality(questions') = Cardinality(questions) + 1]_vars

\* C3: delete of an id that is not stored answers 404 (success false) and
\* leaves the table as it was; delete of a stored id succeeds and removes
\* that one record and no other; a delete repeated right away answers 404.
C3_Delete ==
    [][request'.op = "delete" =>
        /\ IF request'.id \in Ids(questions)
           THEN /\ response'.status = 200
                /\ response'.success
                /\ questions' = {q \in questions : q.id # request'.id}
                /\ Cardinality(questions') = Cardinality(questions) - 1
           ELSE /\ response'.status = 404
                /\ ~response'.success
                /\ questions' = questions
        /\ (request.op = "delete" /\ response.status = 200 /\ request'.id = request.id) =>
              response'.status = 404]_vars

\* a stored question was deleted and another one is still stored
C3_Witness ==
    /\ request.op = "delete"
    /\ response.status = 200
    /\ questions # {}

(***************************************************************************)
(* Pagination: GET /questions over tables of up to MaxPageRows rows.       *)
(***************************************************************************)
PageRow(id) == NewQuestion(id, JStr(<<"a">>), JStr(<<"x">>), JInt(1), JInt(2))

PageArgs == {JNull} \cup {JInt(p) : p \in -MaxPage .. MaxPage}

InitPage ==
    /\ questions \in {{PageRow(id) : id \in S} : S \in SUBSET (1 .. MaxPageRows)}
    /\ nextId = MaxPageRows + 1
    /\ categories = CategoryPool
    /\ request = NoRequest
    /\ response = NoResponse
    /\ seen = {}
    /\ served = <<>>
    /\ calls = 0
    /\ quizCategory = JNull
    /\ history = 1 .. MaxPageRows

ListPage == \E arg \in PageArgs : Serve(get_questions(arg))

DeleteRow == \E question_id \in 1 .. MaxPageRows : Serve(remove_question(question_id))

NextPage == ListPage \/ DeleteRow

SpecPage == InitPage /\ [][NextPage]_vars

\* the page a list request asks for: 1 when none is supplied
AskedPage == IF request.page = JNull THEN 1 ELSE request.page.i

\* the position of a stored question in the id-ascending sequence, from 0
Position(q) == Cardinality({o \in questions : o.id < q.id})

\* the stored questions at positions (p-1)*10 up to but not including p*10
Window(p) == {q \in questions : (p - 1) * 10 <= Position(q) /\ Position(q) < p * 10}

Ascending(seq) == \A i, j \in 1 .. Len(seq) : i < j => seq[i].id < seq[j].id

\* C4: for a page p >= 1 (1 when none is supplied) the list is exactly the
\* questions at positions (p-1)*10 up to p*10 of the id-ascending sequence,
\* in that order, and the answer is 404 when there is none.
C4_Pagination ==
    (request.op = "list" /\ AskedPage >= 1) =>
        IF Window(AskedPage) = {}
        THEN response.status = 404 /\ ~response.success
        ELSE /\ response.status = 200
             /\ response.success
             /\ Range(response.questions) = Window(AskedPage)
             /\ Len(response.questions) = Cardinality(Window(AskedPage))
             /\ Ascending(response.questions)

\* page 2 of a table of more than ten questions was listed
C4_Witness ==
    /\ request.op = "list"
    /\ request.page = JInt(2)
    /\ response.status = 200
    /\ Cardinality(questions) > 10

\* C5 as stated: a page number at or below zero is always answered 404.
C5_NonPositivePage ==
    (request.op = "list" /\ AskedPage <= 0) => response.status = 404

(***************************************************************************)
(* Search: POST /questions with a searchTerm.                              *)
(***************************************************************************)
SearchTexts == {<<"a", "b">>, <<"B", "A">>, <<"b">>}

SearchTerms == {<<>>, <<"a">>, <<"B">>, <<"b", "a">>, <<"a", "a">>, <<"_">>, <<"%">>, <<"_", "b">>}

SearchPayloads ==
    {[searchTerm |-> JStr(term), question |-> JNull, answer |-> JNull,
      difficulty |-> JNull, category |-> JNull] : term \in SearchTerms}

TextPayloads ==
    {[searchTerm |-> JNull, question |-> JStr(text), answer |-> JStr(<<"x">>),
      difficulty |-> JInt(2), category |-> JInt(1)] : text \in SearchTexts}

Search == \E payload \in SearchPayloads : Serve(add_or_search_question(payload))

CreateText == \E payload \in TextPayloads : Serve(add_or_search_question(payload))

NextSearch == Search \/ CreateText \/ Delete

SpecSearch == Init /\ [][NextSearch]_vars

\* term occurs in text as a literal substring, letter case aside
Contains(text, term) ==
    \E at \in 0 .. Len(text) - Len(term) :
        \A k \in 1 .. Len(term) : LowerChar(text[at + k]) = LowerChar(term[k])

IsSearch(req) == req.op = "post" /\ Truthy(req.payload.searchTerm)

Containing(term) == {q \in questions : Contains(q.question, term)}

\* C6 as stated (a request is a search when it carries a non-empty
\* searchTerm): a search matches exactly the stored questions whose text
\* contains the term as a literal, case-insensitive substring; it succeeds
\* with exactly those questions when there is one, and answers 404 when
\* there is none.
C6_LiteralSearch ==
    IsSearch(request) =>
        LET matching == Containing(request.payload.searchTerm.s)
        IN  IF matching = {}
            THEN response.status = 404
            ELSE /\ response.status = 200
                 /\ Range(response.questions) = matching
                 /\ response.totalQuestions = Cardinality(matching)

(***************************************************************************)
(* Category listing: GET /categories/<int:category_id>/questions.          *)
(***************************************************************************)
CategoryPayloads ==
    {[searchTerm |-> JNull, question |-> JStr(<<"a">>), answer |-> JStr(<<"x">>),
      difficulty |-> JInt(2), category |-> ref] :
        ref \in {JInt(1), JInt(2), JInt(3), JStr(<<"1">>), JStr(<<"0", "1">>)}}

InitCategory ==
    /\ questions = {}
    /\ nextId = 1
    /\ categories \in SUBSET CategoryPool
    /\ request = NoRequest
    /\ response = NoResponse
    /\ seen = {}
    /\ served = <<>>
    /\ calls = 0
    /\ quizCategory = JNull
    /\ history = {}

CreateInCategory == \E payload \in CategoryPayloads : Serve(add_or_search_question(payload))

ListCategory ==
    \E category_id \in 0 .. MaxCategoryId : Serve(get_questions_by_category(category_id))

NextCategory == CreateInCategory \/ ListCategory \/ Delete

SpecCategory == InitCategory /\ [][NextCategory]_vars

\* C7: listing category c answers 404 exactly when the catalog has no
\* category c; otherwise it succeeds, also with no question in c, with
\* exactly the stored questions whose category is the text of c, their
\* number as totalQuestions and the category's type as currentCategory.
C7_ListByCategory ==
    request.op = "category" =>
        LET c == request.id
            members == {q \in questions : q.category = IntStr(c)}
        IN  IF \A cat \in categories : cat.id # c
            THEN response.status = 404 /\ ~response.success
            ELSE /\ response.status = 200
                 /\ response.success
                 /\ Range(response.questions) = members
                 /\ Len(response.questions) = Cardinality(members)
                 /\ response.totalQuestions = Cardinality(members)
                 /\ \E cat \in categories :
                       cat.id = c /\ response.currentCategory = Some(cat.type)

\* a category was listed that holds some of the stored questions, not all
C7_Witness ==
    /\ request.op = "category"
    /\ response.status = 200
    /\ response.totalQuestions >= 1
    /\ response.totalQuestions < Cardinality(questions)

(***************************************************************************)
(* Quiz: POST /quizzes with any history and any category.                  *)
(***************************************************************************)
QuizRow(id, category) == NewQuestion(id, JStr(<<"a">>), JStr(<<"x">>), category, JInt(2))

\* category 1 is in the catalog, category 3 is not
QuizRefs == {JInt(1), JInt(3)}

QuizPayloads ==
    {[searchTerm |-> JNull, question |-> JStr(<<"a">>), answer |-> JStr(<<"x">>),
      difficulty |-> JInt(2), category |-> ref] : ref \in QuizRefs}

\* quiz_category ids a client sends: none, 0 for all categories, or an id
QuizCategories == {JNull} \cup {JInt(c) : c \in 0 .. MaxCategoryId}

CreateForQuiz == \E payload \in QuizPayloads : Serve(add_or_search_question(payload))

Quiz ==
    \E previous_questions \in SUBSET (1 .. MaxId), quiz_category \in QuizCategories :
        Serve(play_quiz([previous_questions |-> previous_questions,
                         quiz_category |-> quiz_category]))

NextQuiz == CreateForQuiz \/ Delete \/ Quiz

SpecQuiz == Init /\ [][NextQuiz]_vars

\* a category id that is present and not 0 restricts the quiz to it
Restricts(quiz_category) == quiz_category # JNull /\ quiz_category # JInt(0)

InScope(q, quiz_category) ==
    Restricts(quiz_category) => q.category = IntStr(quiz_category.i)

Candidates(previous_questions, quiz_category) ==
    {q \in questions : q.id \notin previous_questions /\ InScope(q, quiz_category)}

\* C8: quiz next always succeeds; it returns no question exactly when no
\* stored question is outside previousQuestionIds and inside the category
\* scope, and otherwise returns one of those questions.
C8_QuizNext ==
    request.op = "quiz" =>
        LET candidates == Candidates(request.data.previous_questions, request.data.quiz_category)
        IN  /\ response.status = 200
            /\ response.success
            /\ (response.question = None) <=> (candidates = {})
            /\ response.question # None => response.question[1] \in candidates

\* a question was served while the history and the category each rule out
\* a stored question
C8_Witness ==
    /\ request.op = "quiz"
    /\ response.question # None
    /\ Restricts(request.data.quiz_category)
    /\ \E q \in questions : q.id \in request.data.previous_questions
    /\ \E q \in questions : ~InScope(q, request.data.quiz_category)

(***************************************************************************)
(* A quiz session: the client sends the ids it was served so far.          *)
(***************************************************************************)
InitSession ==
    /\ questions = {}
    /\ nextId = 1
    /\ categories = CategoryPool
    /\ request = NoRequest
    /\ response = NoResponse
    /\ seen = {}
    /\ served = <<>>
    /\ calls = 0
    /\ quizCategory \in QuizCategories
    /\ history = {}

\* the client asks for the next question and adds the one it is served to
\* the history it will send
AskNext ==
    /\ play_quiz([previous_questions |-> seen, quiz_category |-> quizCategory])
    /\ IF response'.question = None
       THEN UNCHANGED <<seen, served>>
       ELSE /\ seen' = seen \cup {response'.question[1].id}
            /\ served' = Append(served, response'.question[1])
    /\ UNCHANGED <<quizCategory, history>>

QuizStep == AskNext /\ UNCHANGED calls

NextSession == CreateForQuiz \/ Delete \/ QuizStep

SpecSession == InitSession /\ [][NextSession]_vars

NoRepeat(seq) == \A i, j \in 1 .. Len(seq) : i # j => seq[i].id # seq[j].id

\* C9: in a session no question is served twice and every served question
\* lies in the session's category scope, whatever is created or deleted
\* between the session's calls.
C9_SessionNoRepeat ==
    /\ NoRepeat(served)
    /\ \A i \in 1 .. Len(served) : InScope(served[i], quizCategory)

\* two questions were served, one of them has been deleted since, and a
\* stored question is outside the session's scope
C9_Witness ==
    /\ Len(served) >= 2
    /\ \E i \in 1 .. Len(served) : served[i].id \notin Ids(questions)
    /\ \E q \in questions : ~InScope(q, quizCategory)

(***************************************************************************)
(* A quiz session over a table that does not change.                       *)
(***************************************************************************)
\* the tables of up to MaxId questions, each in category 1 or 3
StaticTables ==
    {{QuizRow(id, f[id]) : id \in DOMAIN f} :
        f \in UNION {[S -> QuizRefs] : S \in SUBSET (1 .. MaxId)}}

InitStatic ==
    /\ questions \in StaticTables
    /\ nextId = MaxId + 1
    /\ categories = CategoryPool
    /\ request = NoRequest
    /\ response = NoResponse
    /\ seen = {}
    /\ served = <<>>
    /\ calls = 0
    /\ quizCategory \in QuizCategories
    /\ history = 1 .. MaxId

CountedQuizStep ==
    /\ calls < MaxCalls
    /\ AskNext
    /\ calls' = calls + 1

NextStatic == CountedQuizStep

SpecStatic == InitStatic /\ [][NextStatic]_vars

\* the stored questions in the session's scope
Scope == {q \in questions : InScope(q, quizCategory)}

\* C10: over an unchanged table with N questions in scope, the first N
\* calls each serve a different one of them, and call N+1 and every later
\* call return no question.
C10_SessionExhausts ==
    LET N == Cardinality(Scope)
    IN  /\ Len(served) = Min(calls, N)
        /\ NoRepeat(served)
        /\ Range(served) \subseteq Scope
        /\ (1 <= calls /\ calls <= N) => response.question = Some(served[calls])
        /\ calls > N => response.question = None

\* a session of two or more questions was called twice after its last one,
\* with a stored question outside its scope
C10_Witness ==
    /\ Len(served) >= 2
    /\ calls >= Len(served) + 2
    /\ questions # Scope

====
